---- MODULE Spec2Model ----
(***************************************************************************)
(* Trackmania Weekly Shorts bot (src/main.py): the WeeklyCompetition       *)
(* store, its persistence, the week-rollover timer, the command handlers   *)
(* and the time codec.                                                     *)
(*                                                                         *)
(* Text (time strings, display names) is a sequence of one-character       *)
(* strings.  An Optional[int] is << >> (None) or <<v>>.  A Python dict     *)
(* whose iteration order matters (player_times) is a sequence of           *)
(* [discord_id, times] items in insertion order; the other dicts are       *)
(* functions.  A week key (the YYYY-MM-DD of the anchor Sunday) is the     *)
(* day number of that Sunday; day 0 is a Monday.                           *)
(***************************************************************************)
EXTENDS Integers, Sequences, FiniteSets, TLC

VARIABLES
    clock,          \* wall clock: [day, late]; late <=> time of day >= 18:15
    current_week,   \* WeeklyCompetition.current_week
    player_names,   \* WeeklyCompetition.player_names
    player_times,   \* WeeklyCompetition.player_times (insertion ordered)
    author_times,   \* WeeklyCompetition.author_times
    data_file,      \* content of competition_data.json, NoFile when absent
    disk,           \* the file system: [faulty, wrote, nfail]
    loop,           \* the event loop: [running, pc, arg] of the coroutines
    ncmd,           \* number of mutating calls handled so far
    last            \* the operation that produced this state, and its outcome

vars == <<clock, current_week, player_names, player_times, author_times,
          data_file, disk, loop, ncmd, last>>

store == <<current_week, player_names, player_times, author_times>>

-----------------------------------------------------------------------------
(* Bounds of the model *)

MaxCmds == 3
MaxDay == 7
MaxFaults == 1
MaxTextLen == 5
MaxMinutes == 10

\* datetime.weekday() of a Sunday
Sunday == 6

Players == {1, 2}
MapRange == 1..5
MapInputs == {0, 1, 5, 6}

None == << >>
Some(v) == <<v>>

NoFile == [absent |-> TRUE]

\* a file that json.load cannot decode: what a write that failed after
\* open(..., 'w') leaves
Truncated == [truncated |-> TRUE]

\* the coroutines of the event loop: the weekly_reset_check task and the
\* command invocations that can be in progress together
Timer == 0
Handlers == {1, 2}
NoTask == -1
NoArg == [author |-> 0, map |-> 0, ms |-> 0]

\* no coroutine is running, none is in progress
Idle == [running |-> NoTask,
         pc |-> [t \in {Timer} \cup Handlers |-> "idle"],
         arg |-> [t \in Handlers |-> NoArg]]

\* a file system whose calls all succeed, and one whose calls may raise
Sound == [faulty |-> FALSE, wrote |-> "none", nfail |-> 0]
Faulty == [faulty |-> TRUE, wrote |-> "none", nfail |-> 0]

EmptyDict == [k \in {} |-> 0]

-----------------------------------------------------------------------------
(* Text *)

Digits == <<"0", "1", "2", "3", "4", "5", "6", "7", "8", "9">>

\* int(c) of a decimal digit c
DigitVal == [c \in {Digits[i] : i \in 1..10} |-> (CHOOSE i \in 1..10 : Digits[i] = c) - 1]

IsDigit(c) == c \in DOMAIN DigitVal

Whitespace == {" ", "\t", "\n"}

Upper == <<"A", "B", "C", "D", "E", "F", "G", "H", "I", "J", "K", "L", "M",
           "N", "O", "P", "Q", "R", "S", "T", "U", "V", "W", "X", "Y", "Z">>

Lower == <<"a", "b", "c", "d", "e", "f", "g", "h", "i", "j", "k", "l", "m",
           "n", "o", "p", "q", "r", "s", "t", "u", "v", "w", "x", "y", "z">>

\* ord(c) of a letter, and c.lower()
Ord == [c \in {Upper[i] : i \in 1..26} \cup {Lower[i] : i \in 1..26} |->
          IF \E i \in 1..26 : Upper[i] = c
          THEN 64 + (CHOOSE i \in 1..26 : Upper[i] = c)
          ELSE 96 + (CHOOSE i \in 1..26 : Lower[i] = c)]

LowerOf == [c \in DOMAIN Ord |-> IF Ord[c] <= 90 THEN Lower[Ord[c] - 64] ELSE c]

\* str.lower()
ToLower(s) == [i \in 1..Len(s) |-> LowerOf[s[i]]]

\* str < str: lexicographic on code points, a proper prefix is smaller
StrLess(a, b) ==
    \E i \in 1..(Len(b)) :
        /\ \A j \in 1..(i - 1) : j <= Len(a) /\ a[j] = b[j]
        /\ i - 1 <= Len(a)
        /\ \/ i = Len(a) + 1
           \/ i <= Len(a) /\ Ord[a[i]] < Ord[b[i]]

\* int(text) for a text of decimal digits
RECURSIVE DigitsToInt(_)
DigitsToInt(s) ==
    IF Len(s) = 0 THEN 0
    ELSE 10 * DigitsToInt(SubSeq(s, 1, Len(s) - 1)) + DigitVal[s[Len(s)]]

\* str(n) for n >= 0
RECURSIVE IntToDigits(_)
IntToDigits(n) ==
    IF n < 10 THEN <<Digits[n + 1]>>
    ELSE Append(IntToDigits(n \div 10), Digits[(n % 10) + 1])

\* str.strip()
RECURSIVE LStrip(_)
LStrip(s) ==
    IF Len(s) > 0 /\ s[1] \in Whitespace THEN LStrip(Tail(s)) ELSE s

RECURSIVE RStrip(_)
RStrip(s) ==
    IF Len(s) > 0 /\ s[Len(s)] \in Whitespace
    THEN RStrip(SubSeq(s, 1, Len(s) - 1)) ELSE s

Strip(s) == RStrip(LStrip(s))

\* str.replace(',', '.')
ReplaceComma(s) == [i \in 1..Len(s) |-> IF s[i] = "," THEN "." ELSE s[i]]

\* a faulty ljust: the fraction is padded on the left
Pad3_rjust(ms) ==
    SubSeq(<<"0", "0", "0">> \o ms, Len(ms) + 1, Len(ms) + 3)

\* ms.ljust(3, '0')[:3]
Pad3(ms) ==
    SubSeq(ms \o <<"0", "0", "0">>, 1, 3)

\* the positions of the characters of s that are not digits
Seps(s) == {i \in 1..Len(s) : ~IsDigit(s[i])}

\* ^(\d+):(\d{1,2})[:.](\d{1,3})$ where i < j are the two separators of s
MatchMinSecMs(s, i, j) ==
    /\ s[i] = ":"
    /\ s[j] \in {":", "."}
    /\ i >= 2
    /\ j - i - 1 \in 1..2
    /\ Len(s) - j \in 1..3

\* ^(\d+)\.(\d{1,3})$ where i is the one separator of s
MatchSecMs(s, i) ==
    /\ s[i] = "."
    /\ i >= 2
    /\ Len(s) - i \in 1..3

parse_time(time_str) ==
    LET s == ReplaceComma(Strip(time_str))
        n == Len(s)
        seps == Seps(s)
        i == CHOOSE x \in seps : \A y \in seps : x <= y
        j == CHOOSE x \in seps : \A y \in seps : y <= x
    IN  IF Cardinality(seps) = 2 /\ MatchMinSecMs(s, i, j)
        THEN LET minutes == SubSeq(s, 1, i - 1)
                 seconds == SubSeq(s, i + 1, j - 1)
                 ms == Pad3(SubSeq(s, j + 1, n))
             IN  Some(DigitsToInt(minutes) * 60000 + DigitsToInt(seconds) * 1000
                      + DigitsToInt(ms))
        ELSE IF Cardinality(seps) = 1 /\ MatchSecMs(s, i)
        THEN LET seconds == SubSeq(s, 1, i - 1)
                 ms == Pad3(SubSeq(s, i + 1, n))
             IN  Some(DigitsToInt(seconds) * 1000 + DigitsToInt(ms))
        ELSE IF n >= 1 /\ seps = {}
        THEN Some(DigitsToInt(s))
        ELSE None

\* f"{n:0{width}d}" for n >= 0
ZFill(n, width) ==
    LET digits == IntToDigits(n)
    IN  IF Len(digits) >= width THEN digits
        ELSE [i \in 1..(width - Len(digits)) |-> "0"] \o digits

\* a faulty format_time: the milliseconds are not zero-padded
format_time_unpadded(ms) ==
    IF ms <= 0
    THEN <<"0", "0", ":", "0", "0", ".", "0", "0", "0">>
    ELSE LET minutes == ms \div 60000
             seconds == (ms % 60000) \div 1000
             milliseconds == ms % 1000
         IN  ZFill(minutes, 2) \o <<":">> \o ZFill(seconds, 2) \o <<".">>
                \o ZFill(milliseconds, 1)

format_time(ms) ==
    IF ms <= 0
    THEN <<"0", "0", ":", "0", "0", ".", "0", "0", "0">>
    ELSE LET minutes == ms \div 60000
             seconds == (ms % 60000) \div 1000
             milliseconds == ms % 1000
         IN  ZFill(minutes, 2) \o <<":">> \o ZFill(seconds, 2) \o <<".">>
                \o ZFill(milliseconds, 3)

-----------------------------------------------------------------------------
(* Wall clock and week key *)

\* datetime.weekday(): Monday = 0 .. Sunday = 6
Weekday(day) == day % 7

get_current_week(now) ==
    LET weekday == Weekday(now.day)
        days_since_sunday == (weekday + 1) % 7
        days_back ==
            IF days_since_sunday = 0
            THEN IF ~now.late THEN 7 ELSE 0
            ELSE days_since_sunday
    IN  now.day - days_back

-----------------------------------------------------------------------------
(* Dicts *)

\* d[k] = v
DictPut(d, k, v) == [x \in (DOMAIN d) \cup {k} |-> IF x = k THEN v ELSE d[x]]

\* the keys of the insertion-ordered dict player_times
Keys(pt) == {pt[i].discord_id : i \in 1..Len(pt)}

\* pt[discord_id]
TimesOf(pt, discord_id) ==
    pt[CHOOSE i \in 1..Len(pt) : pt[i].discord_id = discord_id].times

\* pt[discord_id] = times: an existing key keeps its position, a new key
\* goes last
SetTimes(pt, discord_id, times) ==
    IF discord_id \in Keys(pt)
    THEN [i \in 1..Len(pt) |->
            IF pt[i].discord_id = discord_id
            THEN [discord_id |-> discord_id, times |-> times]
            ELSE pt[i]]
    ELSE Append(pt, [discord_id |-> discord_id, times |-> times])

\* sum(times.values())
RECURSIVE SumValues(_)
SumValues(d) ==
    IF DOMAIN d = {} THEN 0
    ELSE LET k == CHOOSE x \in DOMAIN d : TRUE
         IN  d[k] + SumValues([x \in (DOMAIN d) \ {k} |-> d[x]])

\* the elements of a list
Range(seq) == {seq[i] : i \in 1..Len(seq)}

\* sorted(seq, key=...): stable, less[x, y] is the strict order of the keys
SortedBy(seq, less) ==
    LET n == Len(seq)
        rank(i) ==
            1 + Cardinality({j \in 1..n :
                    \/ less[seq[j], seq[i]]
                    \/ (~less[seq[i], seq[j]] /\ j < i)})
    IN  [r \in 1..n |-> seq[CHOOSE i \in 1..n : rank(i) = r]]

-----------------------------------------------------------------------------
(* Persistence: competition_data.json *)

\* json.dump: the int keys of the dicts are written as strings
ToJson(cw, pn, pt, at) ==
    [current_week |-> cw,
     player_names |-> [k \in {IntToDigits(i) : i \in DOMAIN pn} |-> pn[DigitsToInt(k)]],
     player_times |-> [i \in 1..Len(pt) |->
                        [key |-> IntToDigits(pt[i].discord_id),
                         value |-> [k \in {IntToDigits(m) : m \in DOMAIN pt[i].times}
                                       |-> pt[i].times[DigitsToInt(k)]]]],
     author_times |-> [k \in {IntToDigits(m) : m \in DOMAIN at} |-> at[DigitsToInt(k)]]]

\* {int(k): v for k, v in data.get('player_names', {}).items()}
LoadNames(data) ==
    [i \in {DigitsToInt(k) : k \in DOMAIN data.player_names}
        |-> data.player_names[IntToDigits(i)]]

\* {int(k): {int(map_k): map_v ...} for k, v in data.get('player_times', {}).items()}
LoadTimes(data) ==
    [i \in 1..Len(data.player_times) |->
        [discord_id |-> DigitsToInt(data.player_times[i].key),
         times |-> [m \in {DigitsToInt(k) : k \in DOMAIN data.player_times[i].value}
                      |-> data.player_times[i].value[IntToDigits(m)]]]]

\* {int(k): v for k, v in data.get('author_times', {}).items()}
LoadAuthorTimes(data) ==
    [m \in {DigitsToInt(k) : k \in DOMAIN data.author_times}
        |-> data.author_times[IntToDigits(m)]]

\* open() or json.dump() may raise on a faulty file system
MayRaise == disk.faulty /\ disk.nfail < MaxFaults

\* a faulty save_data: the file is written before the fields are assigned
save_data_before_mutation ==
    \/ /\ data_file' = ToJson(current_week, player_names, player_times, author_times)
       /\ disk' = [disk EXCEPT !.wrote = "ok"]
    \/ /\ MayRaise
       /\ data_file' \in {data_file, Truncated}
       /\ disk' = [disk EXCEPT !.wrote = "fail", !.nfail = @ + 1]

\* WeeklyCompetition.save_data, called after the fields are assigned: the
\* file is rewritten whole; when open() raises the file is left as it was,
\* when json.dump() raises it is left truncated; the exception is swallowed
save_data ==
    \/ /\ data_file' = ToJson(current_week', player_names', player_times', author_times')
       /\ disk' = [disk EXCEPT !.wrote = "ok"]
    \/ /\ MayRaise
       /\ data_file' \in {data_file, Truncated}
       /\ disk' = [disk EXCEPT !.wrote = "fail", !.nfail = @ + 1]

\* int(k) does not raise: k is a text of decimal digits
IsIntText(k) == Len(k) > 0 /\ \A i \in 1..Len(k) : IsDigit(k[i])

\* the dict comprehensions of load_data do not raise
NamesConvert(data) == \A k \in DOMAIN data.player_names : IsIntText(k)

TimesConvert(data) ==
    \A i \in 1..Len(data.player_times) :
        /\ IsIntText(data.player_times[i].key)
        /\ \A k \in DOMAIN data.player_times[i].value : IsIntText(k)

AuthorTimesConvert(data) == \A k \in DOMAIN data.author_times : IsIntText(k)

\* a faulty load_data: the times of the file are restored whatever its week
load_data_keeps_old_week(read) ==
    /\ current_week' = get_current_week(clock)
    /\ read <=> data_file \notin {NoFile, Truncated}
    /\ IF read
       THEN /\ player_names' = LoadNames(data_file)
            /\ player_times' = LoadTimes(data_file)
            /\ author_times' = LoadAuthorTimes(data_file)
            /\ IF data_file.current_week = current_week'
               THEN UNCHANGED <<data_file, disk>>
               ELSE save_data
       ELSE /\ player_names' = EmptyDict
            /\ player_times' = << >>
            /\ author_times' = EmptyDict
            /\ UNCHANGED <<data_file, disk>>

\* WeeklyCompetition.__init__ with load_data: an exception raised by open(),
\* json.load() or a dict comprehension ends the load where it is, with the
\* fields assigned so far; read <=> open() and json.load() returned
load_data(read) ==
    /\ current_week' = get_current_week(clock)
    /\ \/ /\ data_file = NoFile
          /\ ~read
          /\ player_names' = EmptyDict
          /\ player_times' = << >>
          /\ author_times' = EmptyDict
          /\ UNCHANGED <<data_file, disk>>
       \/ /\ data_file # NoFile
          /\ ~read
          /\ data_file = Truncated \/ MayRaise
          /\ player_names' = EmptyDict
          /\ player_times' = << >>
          /\ author_times' = EmptyDict
          /\ UNCHANGED data_file
          /\ disk' = IF data_file = Truncated THEN disk
                     ELSE [disk EXCEPT !.nfail = @ + 1]
       \/ /\ data_file \notin {NoFile, Truncated}
          /\ read
          /\ IF ~NamesConvert(data_file)
             THEN /\ player_names' = EmptyDict
                  /\ player_times' = << >>
                  /\ author_times' = EmptyDict
                  /\ UNCHANGED <<data_file, disk>>
             ELSE /\ player_names' = LoadNames(data_file)
                  /\ IF data_file.current_week = current_week'
                     THEN /\ player_times' =
                               IF TimesConvert(data_file)
                               THEN LoadTimes(data_file) ELSE << >>
                          /\ author_times' =
                               IF TimesConvert(data_file) /\ AuthorTimesConvert(data_file)
                               THEN LoadAuthorTimes(data_file) ELSE EmptyDict
                          /\ UNCHANGED <<data_file, disk>>
                     ELSE /\ player_times' = << >>
                          /\ author_times' = EmptyDict
                          /\ save_data

-----------------------------------------------------------------------------
(* WeeklyCompetition: mutations *)

\* a faulty register_player: the time map is created anew at every call
register_player_fresh(discord_id, tm_username) ==
    /\ player_names' = DictPut(player_names, discord_id, tm_username)
    /\ player_times' = SetTimes(player_times, discord_id, EmptyDict)
    /\ UNCHANGED <<current_week, author_times>>
    /\ save_data

register_player(discord_id, tm_username) ==
    /\ player_names' = DictPut(player_names, discord_id, tm_username)
    /\ player_times' =
         IF discord_id \notin Keys(player_times)
         THEN SetTimes(player_times, discord_id, EmptyDict)
         ELSE player_times
    /\ UNCHANGED <<current_week, author_times>>
    /\ save_data

\* a faulty add_time: the map number is not checked
add_time_any_map(discord_id, map_num, time_ms, ret) ==
    IF discord_id \notin DOMAIN player_names
    THEN ret = FALSE /\ UNCHANGED <<store, data_file, disk>>
    ELSE /\ LET pt == IF discord_id \notin Keys(player_times)
                      THEN SetTimes(player_times, discord_id, EmptyDict)
                      ELSE player_times
            IN  player_times' =
                    SetTimes(pt, discord_id,
                             DictPut(TimesOf(pt, discord_id), map_num, time_ms))
         /\ UNCHANGED <<current_week, player_names, author_times>>
         /\ save_data
         /\ ret = TRUE

\* ret is the value add_time returns
add_time(discord_id, map_num, time_ms, ret) ==
    IF discord_id \notin DOMAIN player_names
    THEN ret = FALSE /\ UNCHANGED <<store, data_file, disk>>
    ELSE IF map_num \notin MapRange
    THEN ret = FALSE /\ UNCHANGED <<store, data_file, disk>>
    ELSE /\ LET pt == IF discord_id \notin Keys(player_times)
                      THEN SetTimes(player_times, discord_id, EmptyDict)
                      ELSE player_times
            IN  player_times' =
                    SetTimes(pt, discord_id,
                             DictPut(TimesOf(pt, discord_id), map_num, time_ms))
         /\ UNCHANGED <<current_week, player_names, author_times>>
         /\ save_data
         /\ ret = TRUE

\* a faulty set_author_time: the map number is not checked
set_author_time_any_map(map_num, time_ms, ret) ==
    /\ author_times' = DictPut(author_times, map_num, time_ms)
    /\ UNCHANGED <<current_week, player_names, player_times>>
    /\ save_data
    /\ ret = TRUE

\* ret is the value set_author_time returns
set_author_time(map_num, time_ms, ret) ==
    IF map_num \notin MapRange
    THEN ret = FALSE /\ UNCHANGED <<store, data_file, disk>>
    ELSE /\ author_times' = DictPut(author_times, map_num, time_ms)
         /\ UNCHANGED <<current_week, player_names, player_times>>
         /\ save_data
         /\ ret = TRUE

\* a faulty reset_week: the registrations are cleared with the times
reset_week_clears_names ==
    /\ current_week' = get_current_week(clock)
    /\ player_names' = EmptyDict
    /\ player_times' = << >>
    /\ author_times' = EmptyDict
    /\ save_data

reset_week ==
    /\ current_week' = get_current_week(clock)
    /\ player_times' = << >>
    /\ author_times' = EmptyDict
    /\ UNCHANGED player_names
    /\ save_data

-----------------------------------------------------------------------------
(* WeeklyCompetition: leaderboards, over names pn, times pt, author times at *)

Unknown == <<"U", "n", "k", "n", "o", "w", "n">>

\* self.player_names.get(discord_id, 'Unknown')
NameOf(pn, discord_id) ==
    IF discord_id \in DOMAIN pn THEN pn[discord_id] ELSE Unknown

TimeLess(x, y) == x.time < y.time

\* the split loop over sorted_players, on the field the board is sorted by
WithSplits(sorted_players, key) ==
    [i \in 1..Len(sorted_players) |->
        LET first_time == sorted_players[1][key]
            player == sorted_players[i]
        IN  [f \in (DOMAIN player) \cup {"split"} |->
                IF f # "split" THEN player[f]
                ELSE IF player[key] = first_time
                     THEN None
                     ELSE Some(player[key] - first_time)]]

\* a faulty get_map_leaderboard: the players are left in insertion order
get_map_leaderboard_unsorted(pn, pt, map_num) ==
    IF map_num \notin MapRange THEN << >>
    ELSE LET has == SelectSeq(pt, LAMBDA it : map_num \in DOMAIN it.times)
             players == [i \in 1..Len(has) |->
                            [discord_id |-> has[i].discord_id,
                             tm_username |-> NameOf(pn, has[i].discord_id),
                             time |-> has[i].times[map_num]]]
         IN  WithSplits(players, "time")

get_map_leaderboard(pn, pt, map_num) ==
    IF map_num \notin MapRange THEN << >>
    ELSE LET has == SelectSeq(pt, LAMBDA it : map_num \in DOMAIN it.times)
             players == [i \in 1..Len(has) |->
                            [discord_id |-> has[i].discord_id,
                             tm_username |-> NameOf(pn, has[i].discord_id),
                             time |-> has[i].times[map_num]]]
             sorted_players == SortedBy(players,
                 [x, y \in Range(players) |-> TimeLess(x, y)])
         IN  WithSplits(sorted_players, "time")

\* the author_medals counter of get_overall_leaderboard
AuthorMedals(times, at) ==
    Cardinality({map_num \in DOMAIN times :
                    map_num \in DOMAIN at /\ times[map_num] <= at[map_num]})

\* a faulty sort key: the names are compared as they are written
OverallLess_case_sensitive(x, y) ==
    \/ -x.maps_completed < -y.maps_completed
    \/ /\ x.maps_completed = y.maps_completed
       /\ \/ -x.author_medals < -y.author_medals
          \/ /\ x.author_medals = y.author_medals
             /\ StrLess(x.tm_username, y.tm_username)

\* key=lambda x: (-x['maps_completed'], -x['author_medals'], x['tm_username'].lower())
OverallLess(x, y) ==
    \/ -x.maps_completed < -y.maps_completed
    \/ /\ x.maps_completed = y.maps_completed
       /\ \/ -x.author_medals < -y.author_medals
          \/ /\ x.author_medals = y.author_medals
             /\ StrLess(ToLower(x.tm_username), ToLower(y.tm_username))

get_overall_leaderboard(pn, pt, at) ==
    LET has == SelectSeq(pt, LAMBDA it : DOMAIN it.times # {})
        players == [i \in 1..Len(has) |->
                       [discord_id |-> has[i].discord_id,
                        tm_username |-> NameOf(pn, has[i].discord_id),
                        maps_completed |-> Cardinality(DOMAIN has[i].times),
                        individual_times |-> has[i].times,
                        author_medals |-> AuthorMedals(has[i].times, at)]]
    IN  SortedBy(players,
                 [x, y \in Range(players) |-> OverallLess(x, y)])

TotalLess(x, y) == x.total_time < y.total_time

\* a faulty get_overall_totals_leaderboard: four maps are enough
get_overall_totals_leaderboard_four(pn, pt) ==
    LET has == SelectSeq(pt, LAMBDA it :
                   DOMAIN it.times # {} /\ Cardinality(DOMAIN it.times) >= 4)
        players == [i \in 1..Len(has) |->
                       [discord_id |-> has[i].discord_id,
                        tm_username |-> NameOf(pn, has[i].discord_id),
                        total_time |-> SumValues(has[i].times),
                        individual_times |-> has[i].times]]
        sorted_players == SortedBy(players,
                 [x, y \in Range(players) |-> TotalLess(x, y)])
    IN  WithSplits(sorted_players, "total_time")

get_overall_totals_leaderboard(pn, pt) ==
    LET has == SelectSeq(pt, LAMBDA it :
                   DOMAIN it.times # {} /\ Cardinality(DOMAIN it.times) = 5)
        players == [i \in 1..Len(has) |->
                       [discord_id |-> has[i].discord_id,
                        tm_username |-> NameOf(pn, has[i].discord_id),
                        total_time |-> SumValues(has[i].times),
                        individual_times |-> has[i].times]]
        sorted_players == SortedBy(players,
                 [x, y \in Range(players) |-> TotalLess(x, y)])
    IN  WithSplits(sorted_players, "total_time")

-----------------------------------------------------------------------------
(* Inputs of the commands *)

Amy == <<"a", "m", "y">>
Bob == <<"B", "o", "b">>
LongName == [i \in 1..51 |-> "x"]

NameInputs == {Amy, Bob, LongName}

TimeTexts ==
    { <<"1", ".", "0">>,                                    \* 1000
      <<" ", "1", "0", ":", "0", "0", ",", "0", "0", "0">>, \* 600000
      <<"9", "9", "9">>,                                    \* 999
      <<"1", "0", ":", "0", ":", "0", "0", "1">>,           \* 600001
      <<"1", ":", "2", "3">> }                              \* no format

\* what an operation leaves in last
Outcome(op, who, map, ms, ok, why, out) ==
    [op |-> op, who |-> who, map |-> map, ms |-> ms, ok |-> ok, why |-> why,
     out |-> out]

-----------------------------------------------------------------------------
(* The bot: commands, the week check, the process start *)

\* time passes
Tick ==
    /\ clock.day < MaxDay
    /\ clock' = IF clock.late THEN [day |-> clock.day + 1, late |-> FALSE]
                ELSE [day |-> clock.day, late |-> TRUE]
    /\ UNCHANGED <<store, data_file, disk, loop, ncmd>>
    /\ last' = Outcome("tick", 0, 0, None, TRUE, "", << >>)

\* !tm register
CmdRegister(author_id, trackmania_username) ==
    /\ ncmd < MaxCmds
    /\ UNCHANGED <<clock, loop, loop>>
    /\ IF Len(trackmania_username) > 50
       THEN /\ UNCHANGED <<store, data_file, disk, ncmd>>
            /\ last' = Outcome("register", 0, 0, None, FALSE, "too long", << >>)
       ELSE /\ register_player(author_id, trackmania_username)
            /\ ncmd' = ncmd + 1
            /\ last' = Outcome("register", author_id, 0, None, TRUE, "", << >>)

\* the fields submit_time adds to the embed after add_time has stored the time
TimeBadges(author_id, map_num, time_ms, pn, pt, at) ==
    LET map_leaderboard == get_map_leaderboard(pn, pt, map_num)
        digits == IntToDigits(time_ms)
    IN  (IF map_num \in DOMAIN at /\ time_ms <= at[map_num]
         THEN <<"author medal">> ELSE << >>)
        \o (IF /\ Len(map_leaderboard) >= 2
               /\ map_leaderboard[1].discord_id = author_id
               /\ map_leaderboard[2].time - map_leaderboard[1].time >= 1000
            THEN <<"speed racer">> ELSE << >>)
        \o (IF Len(digits) >= 2 /\ SubSeq(digits, Len(digits) - 1, Len(digits)) = <<"6", "9">>
            THEN <<"nice">> ELSE << >>)

\* a faulty range check: no upper limit
Reasonable_no_upper(time_ms) == 1000 <= time_ms

\* not (1000 <= time_ms <= 600000) is answered "Time seems unreasonable"
Reasonable(time_ms) == 1000 <= time_ms /\ time_ms <= 600000

\* !tm time; why tells a submission of a player whose time map was cleared,
\* who tells the author of a stored time and of a "register first" reply
CmdTime(author_id, map_num, time_str) ==
    /\ ncmd < MaxCmds
    /\ UNCHANGED <<clock, loop, loop>>
    /\ \E time_ms \in {parse_time(time_str)} :
       LET reject(why, who, ms) ==
               /\ UNCHANGED <<store, data_file, disk, ncmd>>
               /\ last' = Outcome("time", who, 0, ms, FALSE, why, << >>)
       IN  IF author_id \notin DOMAIN player_names THEN reject("register first", author_id, None)
           ELSE IF map_num \notin MapRange THEN reject("map number", 0, None)
           ELSE IF time_ms = None THEN reject("format", 0, None)
           ELSE IF ~Reasonable(time_ms[1]) THEN reject("unreasonable", 0, time_ms)
           ELSE \E success \in BOOLEAN :
                   /\ add_time(author_id, map_num, time_ms[1], success)
                   /\ ncmd' = IF success THEN ncmd + 1 ELSE ncmd
                   /\ last' = Outcome("time", author_id, map_num, time_ms, success,
                                  IF author_id \in Keys(player_times) THEN ""
                                  ELSE "no time map",
                                  IF success
                                  THEN TimeBadges(author_id, map_num, time_ms[1],
                                           player_names', player_times', author_times')
                                  ELSE << >>)

\* !tm setauthor
CmdSetAuthor(administrator, map_num, time_str) ==
    /\ ncmd < MaxCmds
    /\ UNCHANGED <<clock, loop, loop>>
    /\ \E time_ms \in {parse_time(time_str)} :
       LET reject(why, ms) ==
               /\ UNCHANGED <<store, data_file, disk, ncmd>>
               /\ last' = Outcome("setauthor", 0, 0, ms, FALSE, why, << >>)
       IN  IF ~administrator THEN reject("permissions", None)
           ELSE IF map_num \notin MapRange THEN reject("map number", None)
           ELSE IF time_ms = None THEN reject("format", None)
           ELSE IF ~Reasonable(time_ms[1]) THEN reject("unreasonable", time_ms)
           ELSE \E success \in BOOLEAN :
                   /\ set_author_time(map_num, time_ms[1], success)
                   /\ ncmd' = IF success THEN ncmd + 1 ELSE ncmd
                   /\ last' = Outcome("setauthor", 0, map_num, time_ms, success, "", << >>)

\* !tm map
CmdMap(map_num) ==
    /\ UNCHANGED <<clock, loop, store, data_file, disk, ncmd>>
    /\ LET map_leaderboard == get_map_leaderboard(player_names, player_times, map_num)
       IN  last' =
             IF map_num \notin MapRange
             THEN Outcome("map", 0, map_num, None, FALSE, "map number", << >>)
             ELSE IF map_leaderboard = << >>
             THEN Outcome("map", 0, map_num, None, FALSE, "no times", << >>)
             ELSE Outcome("map", 0, map_num, None, TRUE, "",
                      SubSeq(map_leaderboard, 1,
                             IF Len(map_leaderboard) < 10 THEN Len(map_leaderboard) ELSE 10))

\* !tm leaderboard
CmdLeaderboard ==
    /\ UNCHANGED <<clock, loop, store, data_file, disk, ncmd>>
    /\ LET has_times == \E i \in 1..Len(player_times) : DOMAIN player_times[i].times # {}
       IN  last' =
             IF ~has_times
             THEN Outcome("leaderboard", 0, 0, None, FALSE, "no times", << >>)
             ELSE Outcome("leaderboard", 0, 0, None, TRUE, "",
                      [map_num \in 1..5 |->
                          get_map_leaderboard(player_names, player_times, map_num)]
                      \o <<get_overall_totals_leaderboard(player_names, player_times)>>)

\* handle_week_reset; channel <=> get_channel(LEADERBOARD_CHANNEL) is not None
handle_week_reset(new_week, channel) ==
    IF channel
    THEN /\ reset_week
         /\ last' = Outcome("check", 0, 0, None, TRUE, "reset", << >>)
    ELSE /\ UNCHANGED <<store, data_file, disk>>
         /\ last' = Outcome("check", 0, 0, None, FALSE, "no channel", << >>)

\* the tasks.loop(minutes=5) timer
weekly_reset_check(channel) ==
    /\ UNCHANGED <<clock, loop, ncmd>>
    /\ LET week == get_current_week(clock)
       IN  IF week # current_week
           THEN handle_week_reset(week, channel)
           ELSE /\ UNCHANGED <<store, data_file, disk>>
                /\ last' = Outcome("check", 0, 0, None, FALSE, "same week", << >>)

\* a load fails when the file cannot be read or decoded or a field cannot be
\* converted; read is FALSE when open() or json.load() raised
LoadFailed(read) ==
    /\ data_file # NoFile
    /\ \/ ~read
       \/ ~NamesConvert(data_file)
       \/ /\ data_file.current_week = get_current_week(clock)
          /\ ~(TimesConvert(data_file) /\ AuthorTimesConvert(data_file))

\* the process is started again: WeeklyCompetition() reads the file
Restart ==
    /\ UNCHANGED <<clock, loop, ncmd>>
    /\ \E read \in BOOLEAN :
          /\ load_data(read)
          /\ last' = Outcome("load", 0, 0, None, data_file # NoFile,
                         IF data_file = NoFile THEN "no file"
                         ELSE IF LoadFailed(read) THEN "load failed"
                         ELSE IF data_file.current_week = current_week' THEN "same week"
                         ELSE "new week", << >>)

-----------------------------------------------------------------------------
(* The coroutines on the event loop: a coroutine runs until it awaits *)

\* a faulty schedule: handle_week_reset awaits before it resets, and
\* submit_time before it reads the leaderboard
Suspends_mid_handler(pc) == pc \in {"idle", "send", "handle", "badges"}

\* the coroutine at pc has given the control back to the event loop: it has
\* returned, or it is at its await ctx.send / await channel.send
Suspends(pc) == pc \in {"idle", "send"}

\* the event loop runs t: t is running, or nothing is and t is picked
Runs(t) == loop.running = t \/ loop.running = NoTask

\* t has moved to pc with the argument a
Moved(t, pc, a) ==
    loop' = [running |-> IF Suspends(pc) THEN NoTask ELSE t,
             pc |-> [loop.pc EXCEPT ![t] = pc],
             arg |-> IF t \in Handlers THEN [loop.arg EXCEPT ![t] = a] ELSE loop.arg]

\* weekly_reset_check up to the call of handle_week_reset
TimerCompare ==
    /\ Runs(Timer) /\ loop.pc[Timer] = "idle"
    /\ UNCHANGED <<clock, store, data_file, disk, ncmd>>
    /\ IF get_current_week(clock) # current_week
       THEN /\ Moved(Timer, "handle", NoArg)
            /\ last' = Outcome("check", 0, 0, None, TRUE, "new week", << >>)
       ELSE /\ Moved(Timer, "idle", NoArg)
            /\ last' = Outcome("check", 0, 0, None, FALSE, "same week", << >>)

\* handle_week_reset up to await channel.send
TimerHandle(channel) ==
    /\ Runs(Timer) /\ loop.pc[Timer] = "handle"
    /\ UNCHANGED <<clock, ncmd>>
    /\ IF channel
       THEN /\ reset_week
            /\ Moved(Timer, "send", NoArg)
            /\ last' = Outcome("check", 0, 0, None, TRUE, "reset", << >>)
       ELSE /\ UNCHANGED <<store, data_file, disk>>
            /\ Moved(Timer, "idle", NoArg)
            /\ last' = Outcome("check", 0, 0, None, FALSE, "no channel", << >>)

\* the send of a coroutine completes and the coroutine returns
Sent(t) ==
    /\ Runs(t) /\ loop.pc[t] = "send"
    /\ UNCHANGED <<clock, store, data_file, disk, ncmd>>
    /\ Moved(t, "idle", NoArg)
    /\ last' = Outcome("sent", t, 0, None, TRUE, "", << >>)

\* the register command up to its await ctx.send
StartRegister(t, author_id, trackmania_username) ==
    /\ Runs(t) /\ loop.pc[t] = "idle"
    /\ ncmd < MaxCmds
    /\ UNCHANGED clock
    /\ IF Len(trackmania_username) > 50
       THEN /\ UNCHANGED <<store, data_file, disk, ncmd>>
            /\ last' = Outcome("register", 0, 0, None, FALSE, "too long", << >>)
       ELSE /\ register_player(author_id, trackmania_username)
            /\ ncmd' = ncmd + 1
            /\ last' = Outcome("register", author_id, 0, None, TRUE, "", << >>)
    /\ Moved(t, "send", NoArg)

\* submit_time up to the call of add_time
StartTime(t, author_id, map_num, time_str) ==
    /\ Runs(t) /\ loop.pc[t] = "idle"
    /\ ncmd < MaxCmds
    /\ UNCHANGED <<clock, store, data_file, disk>>
    /\ ncmd' = ncmd + 1
    /\ \E time_ms \in {parse_time(time_str)} :
       LET reject(why) ==
               /\ Moved(t, "send", NoArg)
               /\ last' = Outcome("time", author_id, 0, None, FALSE, why, << >>)
       IN  IF author_id \notin DOMAIN player_names THEN reject("register first")
           ELSE IF map_num \notin MapRange THEN reject("map number")
           ELSE IF time_ms = None THEN reject("format")
           ELSE IF ~Reasonable(time_ms[1]) THEN reject("unreasonable")
           ELSE /\ Moved(t, "add_time",
                         [author |-> author_id, map |-> map_num, ms |-> time_ms[1]])
                /\ last' = Outcome("time", author_id, map_num, time_ms, TRUE,
                               "validated", << >>)

\* success = bot.competition.add_time(...)
StepAddTime(t) ==
    /\ Runs(t) /\ loop.pc[t] = "add_time"
    /\ UNCHANGED <<clock, ncmd>>
    /\ LET a == loop.arg[t]
       IN  \E success \in BOOLEAN :
              /\ add_time(a.author, a.map, a.ms, success)
              /\ Moved(t, IF success THEN "badges" ELSE "idle",
                       IF success THEN a ELSE NoArg)
              /\ last' = Outcome("time", a.author, a.map, Some(a.ms), success,
                             "stored", << >>)

\* the embed of submit_time, up to await ctx.send
StepBadges(t) ==
    /\ Runs(t) /\ loop.pc[t] = "badges"
    /\ UNCHANGED <<clock, store, data_file, disk, ncmd>>
    /\ LET a == loop.arg[t]
       IN  /\ Moved(t, "send", a)
           /\ last' = Outcome("time", a.author, a.map, Some(a.ms), TRUE, "embed",
                          TimeBadges(a.author, a.map, a.ms,
                                     player_names, player_times, author_times))

-----------------------------------------------------------------------------
(* The store called directly, with any arguments *)

StoreNames == {Amy, Bob}
StoreTimes == {1000, 83456}

StoreRegister(discord_id, tm_username) ==
    /\ ncmd < MaxCmds
    /\ UNCHANGED <<clock, loop, loop>>
    /\ register_player(discord_id, tm_username)
    /\ ncmd' = ncmd + 1
    /\ last' = Outcome("register_player", discord_id, 0, None, TRUE, "", tm_username)

\* why tells a replaced time from a new one
StoreAddTime(discord_id, map_num, time_ms) ==
    /\ ncmd < MaxCmds
    /\ UNCHANGED <<clock, loop, loop>>
    /\ \E ret \in BOOLEAN :
          /\ add_time(discord_id, map_num, time_ms, ret)
          /\ ncmd' = IF ret THEN ncmd + 1 ELSE ncmd
          /\ last' = IF ret
                     THEN Outcome("add_time", discord_id, map_num, Some(time_ms), TRUE,
                              IF /\ discord_id \in Keys(player_times)
                                 /\ map_num \in DOMAIN TimesOf(player_times, discord_id)
                              THEN "replaced" ELSE "new", << >>)
                     ELSE Outcome("add_time", 0, 0, None, FALSE, "", << >>)

StoreSetAuthorTime(map_num, time_ms) ==
    /\ ncmd < MaxCmds
    /\ UNCHANGED <<clock, loop, loop>>
    /\ \E ret \in BOOLEAN :
          /\ set_author_time(map_num, time_ms, ret)
          /\ ncmd' = IF ret THEN ncmd + 1 ELSE ncmd
          /\ last' = IF ret
                     THEN Outcome("set_author_time", 0, map_num, Some(time_ms), TRUE, "", << >>)
                     ELSE Outcome("set_author_time", 0, 0, None, FALSE, "", << >>)

StoreResetWeek ==
    /\ UNCHANGED <<clock, loop, ncmd>>
    /\ reset_week
    /\ last' = Outcome("reset_week", 0, 0, None, TRUE, "", << >>)

-----------------------------------------------------------------------------
(* The data file left at the path by something else than this process *)

\* files of the given week: one save_data could have written, and three whose
\* player_names, player_times or author_times has a key that is not an int
ForeignFiles(week) ==
    LET written == ToJson(week, [id \in {1} |-> Amy],
                          <<[discord_id |-> 1, times |-> [m \in {1} |-> 1000]]>>,
                          [m \in {1} |-> 1000])
        x == <<"x">>
    IN  { written,
          [written EXCEPT !.player_names = [k \in {x} |-> Amy]],
          [written EXCEPT !.player_times = <<[key |-> x, value |-> EmptyDict]>>],
          [written EXCEPT !.author_times = [k \in {x} |-> 1000]] }

\* the file is replaced while the process runs or before it starts
ForeignFile(file) ==
    /\ data_file' = file
    /\ UNCHANGED <<clock, loop, store, disk, ncmd>>
    /\ last' = Outcome("file", 0, 0, None, TRUE, "", << >>)

-----------------------------------------------------------------------------
(* The leaderboards of a store *)

QueryMap(map_num) ==
    /\ UNCHANGED <<clock, loop, store, data_file, disk, ncmd>>
    /\ last' = Outcome("get_map_leaderboard", 0, map_num, None, TRUE, "",
                   get_map_leaderboard(player_names, player_times, map_num))

QueryOverall ==
    /\ UNCHANGED <<clock, loop, store, data_file, disk, ncmd>>
    /\ last' = Outcome("get_overall_leaderboard", 0, 0, None, TRUE, "",
                   get_overall_leaderboard(player_names, player_times, author_times))

QueryTotals ==
    /\ UNCHANGED <<clock, loop, store, data_file, disk, ncmd>>
    /\ last' = Outcome("get_overall_totals_leaderboard", 0, 0, None, TRUE, "",
                   get_overall_totals_leaderboard(player_names, player_times))

\* the stores the leaderboards are computed on: three registered players, any
\* of them with a time map, in any insertion order
LBPlayers == {1, 2, 3}

bob == <<"b", "o", "b">>

LBNames == [id \in LBPlayers |-> IF id = 1 THEN Bob ELSE IF id = 2 THEN Amy ELSE bob]

LBTimes ==
    { EmptyDict,
      [m \in {1} |-> 83456],
      [m \in 1..4 |-> 1000],
      [m \in 1..5 |-> 83456],
      [m \in 1..5 |-> IF m = 5 THEN 1000 ELSE 600000] }

LBAuthorTimes ==
    { EmptyDict,
      [m \in {1} |-> 1000],
      [m \in 1..5 |-> 83456] }

\* the sequences without repetition of players that have a time map
LBOrders ==
    {q \in UNION {[1..n -> LBPlayers] : n \in 0..Cardinality(LBPlayers)} :
        \A i, j \in 1..Len(q) : i # j => q[i] # q[j]}

Init ==
    /\ clock = [day |-> Sunday, late |-> FALSE]
    /\ current_week = get_current_week(clock)
    /\ player_names = EmptyDict
    /\ player_times = << >>
    /\ author_times = EmptyDict
    /\ data_file = NoFile
    /\ disk = Sound
    /\ loop = Idle
    /\ ncmd = 0
    /\ last = Outcome("init", 0, 0, None, FALSE, "no file", << >>)

Next ==
    \/ Tick
    \/ \E id \in Players, name \in NameInputs : CmdRegister(id, name)
    \/ \E id \in Players, m \in MapInputs, t \in TimeTexts : CmdTime(id, m, t)
    \/ \E adm \in BOOLEAN, m \in MapInputs, t \in TimeTexts : CmdSetAuthor(adm, m, t)
    \/ \E channel \in BOOLEAN : weekly_reset_check(channel)
    \/ Restart

Spec == Init /\ [][Next]_vars


NextStore ==
    \/ Tick
    \/ \E id \in Players, name \in StoreNames : StoreRegister(id, name)
    \/ \E id \in Players, m \in MapInputs, ms \in StoreTimes : StoreAddTime(id, m, ms)
    \/ \E m \in MapInputs, ms \in StoreTimes : StoreSetAuthorTime(m, ms)
    \/ StoreResetWeek
    \/ Restart

SpecStore == Init /\ [][NextStore]_vars

\* the store on a file system whose calls may raise, with a data file that
\* may come from elsewhere
InitIO ==
    /\ clock = [day |-> Sunday, late |-> FALSE]
    /\ current_week = get_current_week(clock)
    /\ player_names = EmptyDict
    /\ player_times = << >>
    /\ author_times = EmptyDict
    /\ data_file = NoFile
    /\ disk = Faulty
    /\ loop = Idle
    /\ ncmd = 0
    /\ last = Outcome("init", 0, 0, None, FALSE, "no file", << >>)

NextIO ==
    \/ Tick
    \/ \E id \in Players : StoreRegister(id, Bob)
    \/ \E id \in Players, m \in {1, 6} : StoreAddTime(id, m, 83456)
    \/ \E m \in {5, 6} : StoreSetAuthorTime(m, 83456)
    \/ StoreResetWeek
    \/ Restart
    \/ \E file \in ForeignFiles(get_current_week(clock)) : ForeignFile(file)

SpecIO == InitIO /\ [][NextIO]_vars

InitLB ==
    /\ clock = [day |-> Sunday, late |-> FALSE]
    /\ current_week = get_current_week(clock)
    /\ player_names = LBNames
    /\ \E q \in LBOrders :
          \E t \in [1..Len(q) -> LBTimes] :
             player_times = [i \in 1..Len(q) |-> [discord_id |-> q[i], times |-> t[i]]]
    /\ author_times \in LBAuthorTimes
    /\ data_file = ToJson(current_week, player_names, player_times, author_times)
    /\ disk = Sound
    /\ loop = Idle
    /\ ncmd = 0
    /\ last = Outcome("load", 0, 0, None, TRUE, "same week", << >>)

NextLB ==
    \/ \E m \in 0..6 : QueryMap(m)
    \/ QueryOverall
    \/ QueryTotals
    \/ \E m \in 0..6 : CmdMap(m)
    \/ CmdLeaderboard

SpecLB == InitLB /\ [][NextLB]_vars

\* the week check and two command invocations on the event loop
NextAsync ==
    \/ Tick
    \/ TimerCompare
    \/ \E channel \in BOOLEAN : TimerHandle(channel)
    \/ \E t \in {Timer} \cup Handlers : Sent(t)
    \/ \E t \in Handlers, id \in Players : StartRegister(t, id, Amy)
    \/ \E t \in Handlers, id \in Players, m \in {1, 6} :
          StartTime(t, id, m, <<"1", ".", "0">>)
    \/ \E t \in Handlers : StepAddTime(t)
    \/ \E t \in Handlers : StepBadges(t)

SpecAsync == Init /\ [][NextAsync]_vars

\* the time codec on its own: the arguments are drawn, then the function is
\* applied
MsInputs ==
    {m * 60000 + sec * 1000 + f :
        m \in 0..MaxMinutes, sec \in {0, 1, 9, 10, 59}, f \in {0, 1, 9, 10, 99, 100, 999}}
    \cup {-83456, -1}

TextAlphabet == {"0", "7", ":", ".", ",", "-", " "}

TextInputs ==
    UNION {[1..n -> TextAlphabet] : n \in 0..MaxTextLen}
    \cup { <<"1", "2", ":", "3", "4", ".", "5", "6", "7">>,
           <<"1", ":", "2", "3", ":", "4", "5">>,
           <<"1", ":", "2", "3", "4", ".", "5">>,
           <<"1", ":", "2", "3", ".", "4", "5", "6", "7">>,
           <<"8", "3", ".", "4", "5", "6", "7">>,
           <<"\t", "8", "3", ",", "4", "5", "6", "\n">>,
           <<"8", "3", "4", "5", "6", "a">>,
           <<"0", "0", "8", "3", "4", "5", "6">> }

Format ==
    /\ last.op = "ms"
    /\ UNCHANGED <<clock, loop, store, data_file, disk, ncmd>>
    /\ last' = Outcome("format_time", 0, 0, last.ms, TRUE, "", format_time(last.ms[1]))

Parse ==
    /\ last.op = "text"
    /\ UNCHANGED <<clock, loop, store, data_file, disk, ncmd>>
    /\ \E time_ms \in {parse_time(last.out)} :
          last' = Outcome("parse_time", 0, 0, time_ms, time_ms # None, "", last.out)

InitCodec ==
    /\ clock = [day |-> Sunday, late |-> FALSE]
    /\ current_week = get_current_week(clock)
    /\ player_names = EmptyDict
    /\ player_times = << >>
    /\ author_times = EmptyDict
    /\ data_file = NoFile
    /\ disk = Sound
    /\ loop = Idle
    /\ ncmd = 0
    /\ \/ \E ms \in MsInputs : last = Outcome("ms", 0, 0, Some(ms), FALSE, "", << >>)
       \/ \E text \in TextInputs : last = Outcome("text", 0, 0, None, FALSE, "", text)

NextCodec ==
    \/ Format
    \/ Parse

SpecCodec == InitCodec /\ [][NextCodec]_vars

-----------------------------------------------------------------------------
(* Properties *)

\* the time map of a player, empty when the player has none
TimesMap(pt, discord_id) ==
    IF discord_id \in Keys(pt) THEN TimesOf(pt, discord_id) ELSE EmptyDict

InRange(ms) == 1000 <= ms /\ ms <= 600000

\* C1, as claimed: whenever the week check runs and the freshly computed week key differs
\* from the stored one, then after the check all times and all reference
\* times are cleared, the names are unchanged and the stored key is the
\* fresh key, also when the announcement channel cannot be resolved.
C1_WeekCheckResets ==
    [][(last'.op = "check" /\ get_current_week(clock) # current_week)
        => /\ player_times' = << >>
           /\ author_times' = EmptyDict
           /\ player_names' = player_names
           /\ current_week' = get_current_week(clock')]_vars

\* C3: add_time returns False and leaves the store unchanged when the player
\* is not registered or the map is outside 1..5; otherwise it returns True
\* and the store holds exactly one time for (player, map), the submitted one,
\* with every other time, the reference times, the names and the week key
\* unchanged.
C3_AddTime ==
    [][last'.op = "add_time" =>
        \A id \in Players, m \in MapInputs, ms \in StoreTimes :
            StoreAddTime(id, m, ms) =>
                IF id \notin DOMAIN player_names \/ m \notin 1..5
                THEN ~last'.ok /\ store' = store
                ELSE /\ last'.ok
                     /\ Cardinality({i \in 1..Len(player_times') :
                                        player_times'[i].discord_id = id}) = 1
                     /\ DOMAIN TimesMap(player_times', id)
                            = DOMAIN TimesMap(player_times, id) \cup {m}
                     /\ TimesMap(player_times', id)[m] = ms
                     /\ \A m2 \in DOMAIN TimesMap(player_times, id) \ {m} :
                            TimesMap(player_times', id)[m2]
                                = TimesMap(player_times, id)[m2]
                     /\ \A id2 \in (Keys(player_times) \cup Keys(player_times')) \ {id} :
                            /\ id2 \in Keys(player_times)
                            /\ id2 \in Keys(player_times')
                            /\ TimesOf(player_times', id2) = TimesOf(player_times, id2)
                     /\ author_times' = author_times
                     /\ player_names' = player_names
                     /\ current_week' = current_week]_vars

C3_Replaced ==
    /\ last.op = "add_time"
    /\ last.ok
    /\ last.why = "replaced"
    /\ TimesMap(player_times, last.who)[last.map] = last.ms[1]

\* every stored time and reference time lies in [1000, 600000]
StoredInRange ==
    /\ \A i \in 1..Len(player_times) :
          \A m \in DOMAIN player_times[i].times : InRange(player_times[i].times[m])
    /\ \A m \in DOMAIN author_times : InRange(author_times[m])

\* C4: from the empty store, after any commands and week checks, every
\* stored time and reference time lies in [1000, 600000]; a submission or
\* reference time outside that range is rejected and changes nothing.
C4_TimesInRange ==
    /\ []StoredInRange
    /\ [][(/\ last'.op \in {"time", "setauthor"}
           /\ last'.ms # None
           /\ ~InRange(last'.ms[1]))
          => (~last'.ok /\ store' = store /\ data_file' = data_file)]_vars

C4_Rejected ==
    /\ last.op = "time"
    /\ ~last.ok
    /\ last.ms # None
    /\ last.ms[1] > 600000
    /\ \E i \in 1..Len(player_times) : DOMAIN player_times[i].times # {}

\* C7, as claimed: whenever a submit-time or set-reference-time command stores a value,
\* the stored week key equals the week key computed from the wall clock at
\* that moment.
C7_StoredInCurrentWeek ==
    (last.op \in {"time", "setauthor"} /\ last.ok)
        => current_week = get_current_week(clock)

\* C8, as claimed: when the fresh week key equals the stored one the week check changes
\* nothing; when the real week has changed, the check resets (so that one
\* reset happens after the change, and none before it).
C8_OneResetPerWeek ==
    [][last'.op = "check" =>
        IF get_current_week(clock) = current_week
        THEN last'.why # "reset" /\ store' = store /\ data_file' = data_file
        ELSE last'.why = "reset" /\ current_week' = get_current_week(clock')]_vars

\* C9: the set of registered players never shrinks, a display name changes
\* only by that player's own register command, and a time command is refused
\* with "register first" only for an author who is not registered and
\* otherwise only for its map number or its time text: a registered player
\* can submit a time, also after a week reset has cleared the time maps.
C9_PlayersPersist ==
    [][/\ DOMAIN player_names \subseteq DOMAIN player_names'
       /\ \A p \in DOMAIN player_names :
             player_names'[p] # player_names[p]
                => (last'.op = "register" /\ last'.who = p)
       /\ (last'.op = "time" /\ last'.ok) =>
             /\ last'.who \in DOMAIN player_names
             /\ last'.map \in DOMAIN TimesMap(player_times', last'.who)
             /\ TimesMap(player_times', last'.who)[last'.map] = last'.ms[1]
       /\ (last'.op = "time" /\ ~last'.ok) =>
             /\ last'.why \in {"register first", "map number", "format", "unreasonable"}
             /\ last'.why = "register first" => last'.who \notin DOMAIN player_names]_vars

C9_SubmitAfterReset ==
    /\ last.op = "time"
    /\ last.ok
    /\ last.why = "no time map"
    /\ current_week = Sunday
    /\ last.who \in DOMAIN player_names
    /\ last.map \in DOMAIN TimesMap(player_times, last.who)

\* C10: on load, if the week key of the file differs from the fresh one, the
\* store ends with no times and no reference times, with exactly the names
\* of the file, and the file is rewritten with that state and the fresh key;
\* if the keys are equal, the times, reference times and names are those
\* that were saved.
C10_Load ==
    [][(last'.op = "load" /\ data_file # NoFile) =>
        IF data_file.current_week # get_current_week(clock)
        THEN /\ player_times' = << >>
             /\ author_times' = EmptyDict
             /\ player_names' = player_names
             /\ DOMAIN data_file'.player_names
                    = {IntToDigits(id) : id \in DOMAIN player_names}
             /\ \A id \in DOMAIN player_names :
                    data_file'.player_names[IntToDigits(id)] = player_names[id]
             /\ data_file'.player_times = << >>
             /\ DOMAIN data_file'.author_times = {}
             /\ data_file'.current_week = get_current_week(clock)
        ELSE /\ player_times' = player_times
             /\ author_times' = author_times
             /\ player_names' = player_names
             /\ data_file' = data_file]_vars

C10_LoadedNewWeek ==
    /\ last.op = "load"
    /\ last.why = "new week"
    /\ DOMAIN player_names # {}
    /\ player_times = << >>
    /\ data_file.current_week = Sunday

\* the players that have a time for map m
HaveTime(m) ==
    {id \in Keys(player_times) : m \in DOMAIN TimesOf(player_times, id)}

\* the board lists exactly the players of the set ids, each once
ListsExactly(board, ids) ==
    /\ {board[i].discord_id : i \in 1..Len(board)} = ids
    /\ Len(board) = Cardinality(ids)

\* what claim C2 says of get_map_leaderboard, but for the splits
MapBoardSorted(board, m) ==
    /\ ListsExactly(board, HaveTime(m))
    /\ \A i \in 1..Len(board) :
          board[i].time = TimesOf(player_times, board[i].discord_id)[m]
    /\ \A i, j \in 1..Len(board) : i < j => board[i].time <= board[j].time

\* C2, as claimed: for every map 1..5, get_map_leaderboard returns exactly
\* the players with a time for the map, ascending by time; the first
\* entry's split is None and every other entry's split is its time minus
\* the first entry's time, 0 for an entry that ties the first.
C2_SplitOfEveryOtherEntry ==
    (last.op = "get_map_leaderboard" /\ last.map \in 1..5) =>
        /\ MapBoardSorted(last.out, last.map)
        /\ \A i \in 1..Len(last.out) :
              last.out[i].split =
                  IF i = 1 THEN None
                  ELSE Some(last.out[i].time - last.out[1].time)

\* C2: for every map 1..5, get_map_leaderboard returns exactly the
\* players with a time for the map, ascending by time; the split is None
\* for the first entry and for every entry that ties it, and is the time
\* minus the first entry's time, greater than 0, for every other entry.
C2_MapLeaderboard ==
    (last.op = "get_map_leaderboard" /\ last.map \in 1..5) =>
        /\ MapBoardSorted(last.out, last.map)
        /\ \A i \in 1..Len(last.out) :
              IF last.out[i].time = last.out[1].time
              THEN last.out[i].split = None
              ELSE /\ last.out[i].split = Some(last.out[i].time - last.out[1].time)
                   /\ last.out[i].split[1] > 0

C2_TieAndSplit ==
    /\ last.op = "get_map_leaderboard"
    /\ last.map \in 1..5
    /\ Len(last.out) = 3
    /\ last.out[2].time = last.out[1].time
    /\ last.out[2].split = None
    /\ last.out[3].split # None

\* the players that have a time for each of the maps 1..5
HaveAllFive ==
    {id \in Keys(player_times) : \A m \in 1..5 : m \in DOMAIN TimesOf(player_times, id)}

\* C5: get_overall_totals_leaderboard returns exactly the players that have
\* a time for each of the maps 1..5, each with the sum of the five times, in
\* ascending order of the sum; it is empty when there is no such player.
C5_Totals ==
    last.op = "get_overall_totals_leaderboard" =>
        /\ ListsExactly(last.out, HaveAllFive)
        /\ \A i \in 1..Len(last.out) :
              LET t == TimesOf(player_times, last.out[i].discord_id)
              IN  last.out[i].total_time = t[1] + t[2] + t[3] + t[4] + t[5]
        /\ \A i, j \in 1..Len(last.out) :
              i < j => last.out[i].total_time <= last.out[j].total_time
        /\ HaveAllFive = {} => last.out = << >>

\* a player with four fast times is left out of a board of two
C5_FourMapsLeftOut ==
    /\ last.op = "get_overall_totals_leaderboard"
    /\ Len(last.out) = 2
    /\ last.out[1].total_time < last.out[2].total_time
    /\ \E id \in Keys(player_times) :
          /\ Cardinality(DOMAIN TimesOf(player_times, id)) = 4
          /\ \A m \in DOMAIN TimesOf(player_times, id) :
                \A i \in 1..2 :
                   TimesOf(player_times, id)[m] < last.out[i].individual_times[m]

\* the players that have at least one time
HaveSomeTime ==
    {id \in Keys(player_times) : DOMAIN TimesOf(player_times, id) # {}}

\* x is not after y in the order of the overall leaderboard
OverallInOrder(x, y) ==
    \/ x.maps_completed > y.maps_completed
    \/ /\ x.maps_completed = y.maps_completed
       /\ \/ x.author_medals > y.author_medals
          \/ /\ x.author_medals = y.author_medals
             /\ ~StrLess(ToLower(y.tm_username), ToLower(x.tm_username))

\* C6: get_overall_leaderboard returns exactly the players with at least one
\* time, with the number of their maps and the number of their maps whose
\* time is at most the reference time, ordered by maps descending, then
\* medals descending, then name ascending without regard to case.
C6_Overall ==
    last.op = "get_overall_leaderboard" =>
        /\ ListsExactly(last.out, HaveSomeTime)
        /\ \A i \in 1..Len(last.out) :
              LET t == TimesOf(player_times, last.out[i].discord_id)
              IN  /\ last.out[i].maps_completed = Cardinality(DOMAIN t)
                  /\ last.out[i].author_medals =
                        Cardinality({m \in 1..5 :
                            /\ m \in DOMAIN t
                            /\ m \in DOMAIN author_times
                            /\ t[m] <= author_times[m]})
        /\ \A i, j \in 1..Len(last.out) :
              i < j => OverallInOrder(last.out[i], last.out[j])

\* amy is listed before Bob, who was inserted first, on equal maps and medals
C6_NameBreaksTie ==
    /\ last.op = "get_overall_leaderboard"
    /\ Len(last.out) >= 2
    /\ last.out[1].maps_completed = last.out[2].maps_completed
    /\ last.out[1].author_medals = last.out[2].author_medals
    /\ last.out[1].author_medals > 0
    /\ last.out[1].tm_username = Amy
    /\ last.out[2].tm_username = Bob
    /\ player_times[1].discord_id = last.out[2].discord_id

-----------------------------------------------------------------------------
(* Persistence on a file system whose calls may raise: SpecIO *)

\* the state a load of the file would restore is the state given
ReadsBack(file, cw, pn, pt, at) ==
    /\ file \notin {NoFile, Truncated}
    /\ NamesConvert(file) /\ TimesConvert(file) /\ AuthorTimesConvert(file)
    /\ file.current_week = cw
    /\ LoadNames(file) = pn
    /\ LoadTimes(file) = pt
    /\ LoadAuthorTimes(file) = at

StoreMutations == {"register_player", "add_time", "set_author_time", "reset_week"}

\* the mutation the operation recorded in o is in the store
Mutated(o, cw, pn, pt, at, now) ==
    /\ o.op = "register_player" => o.who \in DOMAIN pn /\ o.who \in Keys(pt)
    /\ o.op = "add_time" =>
          /\ o.map \in DOMAIN TimesMap(pt, o.who)
          /\ TimesMap(pt, o.who)[o.map] = o.ms[1]
    /\ o.op = "set_author_time" =>
          o.map \in DOMAIN at /\ at[o.map] = o.ms[1]
    /\ o.op = "reset_week" =>
          pt = << >> /\ at = EmptyDict /\ cw = get_current_week(now)

\* C11: after a mutating store operation (register_player, successful
\* add_time, successful set_author_time, reset_week) whose file write
\* succeeds, the file reads back as the in-memory week key, names, times and
\* reference times, also when an earlier write failed; when the write fails
\* the operation still reports success and the store holds the mutation.
C11_SavedAfterMutation ==
    [][/\ (last'.op \in StoreMutations /\ last'.ok /\ disk'.wrote = "ok") =>
             ReadsBack(data_file', current_week', player_names', player_times',
                       author_times')
       /\ (last'.op \in StoreMutations /\ disk'.nfail > disk.nfail) =>
             /\ last'.ok
             /\ disk'.wrote = "fail"
       /\ (last'.op \in StoreMutations /\ last'.ok) =>
             Mutated(last', current_week', player_names', player_times',
                     author_times', clock)]_vars

\* a time is stored and written after an earlier write has failed
C11_WrittenAfterFailure ==
    /\ last.op = "add_time" /\ last.ok
    /\ disk.nfail >= 1
    /\ disk.wrote = "ok"
    /\ ReadsBack(data_file, current_week, player_names, player_times, author_times)
    /\ Keys(player_times) = Players

\* C12, as claimed: when the load of the data file fails (open, decode or
\* the conversion of a field, also after other fields were read), the start
\* completes with no registered players, no times and no reference times.
C12_FailedLoadIsEmpty ==
    [][(last'.op = "load" /\ last'.why = "load failed") =>
          /\ player_names' = EmptyDict
          /\ player_times' = << >>
          /\ author_times' = EmptyDict]_vars

-----------------------------------------------------------------------------
(* register_player: SpecStore *)

\* C13: register_player is an idempotent upsert: a call for a player already
\* registered under the same name (as after a first call with the same
\* arguments) leaves the store and the file as they are; a call for a
\* registered player replaces only that player's name and keeps the player's
\* times; a new player gets an empty time map; no other player's name or
\* times, no reference time and not the week key change.
C13_RegisterUpsert ==
    [][last'.op = "register_player" =>
          LET id == last'.who
          IN  /\ DOMAIN player_names' = DOMAIN player_names \cup {id}
              /\ player_names'[id] = last'.out
              /\ \A q \in DOMAIN player_names \ {id} :
                    player_names'[q] = player_names[q]
              /\ Keys(player_times') = Keys(player_times) \cup {id}
              /\ SubSeq(player_times', 1, Len(player_times)) = player_times
              /\ id \notin Keys(player_times) =>
                    TimesOf(player_times', id) = EmptyDict
              /\ author_times' = author_times
              /\ current_week' = current_week
              /\ (/\ id \in DOMAIN player_names
                  /\ player_names[id] = last'.out
                  /\ id \in Keys(player_times)) =>
                    /\ store' = store
                    /\ data_file' = data_file
              /\ (last.op = "register_player" /\ last.who = id /\ last.out = last'.out) =>
                    /\ store' = store
                    /\ data_file' = data_file]_vars

\* a player with a recorded time is registered again, as Bob
C13_RegisteredAgain ==
    /\ last.op = "register_player"
    /\ last.out = Bob
    /\ TimesMap(player_times, last.who) # EmptyDict
    /\ data_file # NoFile
    /\ LoadNames(data_file)[last.who] = Bob

-----------------------------------------------------------------------------
(* The time codec: SpecCodec *)

AllDigits(s) == Len(s) >= 1 /\ \A i \in 1..Len(s) : s[i] \in DOMAIN DigitVal

\* the milliseconds a fraction of 1 to 3 digits stands for
FractionMs(frac) ==
    DigitsToInt(frac) * (IF Len(frac) = 1 THEN 100 ELSE IF Len(frac) = 2 THEN 10 ELSE 1)

\* the values of s read as minutes:seconds.fraction or minutes:seconds:fraction
MinSecFracValues(s) ==
    {DigitsToInt(SubSeq(s, 1, i - 1)) * 60000
        + DigitsToInt(SubSeq(s, i + 1, j - 1)) * 1000
        + FractionMs(SubSeq(s, j + 1, Len(s))) :
     <<i, j>> \in {ij \in (1..Len(s)) \X (1..Len(s)) :
        /\ ij[1] < ij[2]
        /\ s[ij[1]] = ":"
        /\ s[ij[2]] \in {":", "."}
        /\ AllDigits(SubSeq(s, 1, ij[1] - 1))
        /\ AllDigits(SubSeq(s, ij[1] + 1, ij[2] - 1))
        /\ ij[2] - ij[1] - 1 <= 2
        /\ AllDigits(SubSeq(s, ij[2] + 1, Len(s)))
        /\ Len(s) - ij[2] <= 3}}

\* the values of s read as seconds.fraction
SecFracValues(s) ==
    {DigitsToInt(SubSeq(s, 1, i - 1)) * 1000 + FractionMs(SubSeq(s, i + 1, Len(s))) :
     i \in {k \in 1..Len(s) :
        /\ s[k] = "."
        /\ AllDigits(SubSeq(s, 1, k - 1))
        /\ AllDigits(SubSeq(s, k + 1, Len(s)))
        /\ Len(s) - k <= 3}}

\* the results the four forms allow for the text s
FormValues(s) ==
    IF MinSecFracValues(s) # {} THEN {Some(v) : v \in MinSecFracValues(s)}
    ELSE IF SecFracValues(s) # {} THEN {Some(v) : v \in SecFracValues(s)}
    ELSE IF AllDigits(s) THEN {Some(DigitsToInt(s))}
    ELSE {None}

\* C14: for the drawn ms >= 0 (0 .. MaxMinutes:59.999, 600000 among them)
\* parse_time(format_time(ms)) = ms; format_time gives zero-padded MM:SS.mmm
\* with minutes = ms div 60000, seconds = (ms mod 60000) div 1000 and
\* milliseconds = ms mod 1000, and 00:00.000 for every ms <= 0.
C14_FormatParse ==
    last.op = "format_time" =>
        LET ms == last.ms[1]
            text == last.out
            n == Len(text)
        IN  /\ ms >= 0 => parse_time(text) = Some(ms)
            /\ ms <= 0 => text = <<"0", "0", ":", "0", "0", ".", "0", "0", "0">>
            /\ ms > 0 =>
                  /\ n >= 9
                  /\ text[n - 3] = "." /\ text[n - 6] = ":"
                  /\ AllDigits(SubSeq(text, 1, n - 7))
                  /\ AllDigits(SubSeq(text, n - 5, n - 4))
                  /\ AllDigits(SubSeq(text, n - 2, n))
                  /\ DigitsToInt(SubSeq(text, 1, n - 7)) = ms \div 60000
                  /\ DigitsToInt(SubSeq(text, n - 5, n - 4)) = (ms % 60000) \div 1000
                  /\ DigitsToInt(SubSeq(text, n - 2, n)) = ms % 1000

\* 600000 ms is formatted as 10:00.000
C14_TenMinutes ==
    /\ last.op = "format_time"
    /\ last.ms = Some(600000)
    /\ last.out = <<"1", "0", ":", "0", "0", ".", "0", "0", "0">>

\* C15, as claimed: parse_time returns the value of the form the text has
\* (minutes:seconds.fraction, minutes:seconds:fraction, seconds.fraction,
\* digits) and None for every other text.
C15_FormsOfTheText ==
    last.op = "parse_time" => last.ms \in FormValues(last.out)

\* C15: parse_time returns, for the text with the whitespace at its ends
\* removed and every comma replaced by a point: minutes*60000 + seconds*1000
\* + F for minutes:seconds.fraction and minutes:seconds:fraction (seconds of
\* 1-2 digits, fraction of 1-3 digits, F the fraction right-padded to 3
\* digits), seconds*1000 + F for seconds.fraction, the integer value for
\* digits alone, and None for every other text.
C15_ParseTime ==
    last.op = "parse_time" =>
        /\ last.ms \in FormValues(ReplaceComma(Strip(last.out)))
        /\ Cardinality(FormValues(ReplaceComma(Strip(last.out)))) = 1
        /\ last.ok <=> last.ms # None

\* a text with a decimal comma is parsed: 7:7,7 is 7 min 7.7 s
C15_DecimalComma ==
    /\ last.op = "parse_time"
    /\ last.out = <<"7", ":", "7", ",", "7">>
    /\ last.ms = Some(427700)

-----------------------------------------------------------------------------
(* The event loop: SpecAsync *)

\* t is past its first access of the store and before its last one
MidHandler(t) == loop.pc[t] \in {"handle", "add_time", "badges"}

\* C16: the store accesses of the command handlers and of the week check do
\* not interleave: a coroutine that has started runs until its await of the
\* send, so nothing is stored between the comparison of the week keys and
\* the clearing, nothing is reset between add_time and the leaderboard read
\* of the same handler, and after the send nothing of the store is touched.
C16_NoInterleaving ==
    /\ [](\A t \in {Timer} \cup Handlers : MidHandler(t) => loop.running = t)
    /\ [][/\ \A t \in {Timer} \cup Handlers :
                MidHandler(t) =>
                   \/ loop' = loop /\ store' = store /\ data_file' = data_file
                   \/ /\ loop'.pc[t] # loop.pc[t]
                      /\ \A u \in ({Timer} \cup Handlers) \ {t} :
                            loop'.pc[u] = loop.pc[u]
          /\ (loop.pc[Timer] = "handle" /\ store' # store) => last'.why = "reset"
          /\ \A t \in Handlers : loop.pc[t] = "badges" => store' = store
          /\ \A t \in {Timer} \cup Handlers :
                (loop.pc[t] = "send" /\ loop'.pc[t] = "idle") => store' = store]_vars

\* a handler has stored a time and not yet read the leaderboard while the
\* week has changed and another command is waiting for its send
C16_ResetDueMidHandler ==
    /\ \E t \in Handlers :
          /\ loop.pc[t] = "badges"
          /\ \E u \in Handlers \ {t} : loop.pc[u] = "send"
    /\ get_current_week(clock) # current_week
    /\ loop.pc[Timer] = "idle"

-----------------------------------------------------------------------------
(* The keys of the store: SpecStore *)

\* C17: from the empty store, after any register, add-time,
\* set-reference-time and reset operations (and restarts), every player with
\* a time map is registered, so no leaderboard entry takes the fallback name,
\* and every map key of the times and of the reference times is in 1..5, so
\* a time map has 5 entries exactly when it has a time for every map 1..5.
C17_KeysOfTheStore ==
    /\ Keys(player_times) \subseteq DOMAIN player_names
    /\ \A i \in 1..Len(player_times) :
          /\ DOMAIN player_times[i].times \subseteq MapRange
          /\ Cardinality(DOMAIN player_times[i].times) = 5
                <=> DOMAIN player_times[i].times = MapRange
    /\ DOMAIN author_times \subseteq MapRange
    /\ \A m \in MapRange :
          LET board == get_map_leaderboard(player_names, player_times, m)
          IN  \A i \in 1..Len(board) :
                 /\ board[i].discord_id \in DOMAIN player_names
                 /\ board[i].tm_username = player_names[board[i].discord_id]

\* add_time has refused a call while a registered player holds a time and
\* the other player is not registered
C17_Refused ==
    /\ last.op = "add_time" /\ ~last.ok
    /\ \E id \in DOMAIN player_names : TimesMap(player_times, id) # EmptyDict
    /\ DOMAIN player_names # Players

====
